---- MODULE Spec2Model ----
(***************************************************************************)
(* Model of the render core of ai_editVideo:                               *)
(*   utils/validators.py   validate_insertions_frequency / _bounds         *)
(*   models/timeline.py    Timeline.from_decisions                         *)
(*   services/renderer.py  render, build_filter_complex,                   *)
(*                         build_ffmpeg_command, execute_ffmpeg,           *)
(*                         render_with_retry                               *)
(*                                                                         *)
(* Times are Python floats.  They are modelled as binary floating point    *)
(* numbers with round-to-nearest-even, counted in quarters of a second,    *)
(* with a significand of Precision bits (binary64 has 53) and gradual      *)
(* underflow at one quarter of a second.                                   *)
(***************************************************************************)
EXTENDS Integers, Sequences, FiniteSets, TLC

\* ------------------------------------------------------------------------
\* Bounds of the model
\* ------------------------------------------------------------------------
Precision == 3
MaxInsertions == 3
MaxDecisions == 4
MaxBuildDecisions == 12
MaxPlan == 3
PipeCapacity == 2

\* ------------------------------------------------------------------------
\* Floating point arithmetic
\* ------------------------------------------------------------------------
Abs(n) ==
    IF n < 0 THEN -n ELSE n

RECURSIVE Pow2(_)
Pow2(k) ==
    IF k <= 0 THEN 1 ELSE 2 * Pow2(k - 1)

RECURSIVE BitLength(_)
BitLength(n) ==
    IF n <= 0 THEN 0 ELSE 1 + BitLength(n \div 2)

\* The float nearest to the rational num/den (den > 0), ties to even.
RoundRat(num, den) ==
    LET a == Abs(num)
        s == IF num < 0 THEN -1 ELSE 1
        L == BitLength(a \div den)
        e == IF L > Precision THEN L - Precision ELSE 0
        D == den * Pow2(e)
        q == a \div D
        r == a % D
        up == (2 * r > D) \/ (2 * r = D /\ q % 2 = 1)
    IN  s * (IF up THEN q + 1 ELSE q) * Pow2(e)

FAdd(a, b) ==
    RoundRat(a + b, 1)

FSub(a, b) ==
    RoundRat(a - b, 1)

FDiv(a, b) ==
    RoundRat(IF b < 0 THEN -a ELSE a, Abs(b))

\* ------------------------------------------------------------------------
\* Program constants (quarters of a second)
\* ------------------------------------------------------------------------
MinDuration == 2

\* ------------------------------------------------------------------------
\* Input domains
\* ------------------------------------------------------------------------
TimestampValues ==
    {-3, 3, 4, 5}

DurationValues ==
    {2, 12}

ConfidenceValues ==
    {1, 2}

IntervalValues ==
    {6, 10}

MaxPerIntervalValues ==
    {1, 3}

VideoDurationValues ==
    {6, 14}

VARIABLES
    vpc,            \* position in the validation pipeline
    vInput,         \* the list handed to validate_insertions_frequency
    heap,           \* the VisualInsertion objects, by identity
    heap0,          \* the objects as they were before the calls
    interval,
    max_per_interval,
    video_duration,
    filtered,       \* result of validate_insertions_frequency
    valid           \* result of validate_insertion_bounds

vvars == <<vpc, vInput, heap, heap0, interval, max_per_interval,
           video_duration, filtered, valid>>

VARIABLES
    bpc,            \* position of the caller of Timeline.from_decisions
    bDecisions,     \* the decisions handed to from_decisions
    bAspect,        \* the aspect_ratio handed to from_decisions
    built,          \* the Timeline it returned
    bCommand        \* what build_ffmpeg_command made of that Timeline

bvars == <<bpc, bDecisions, bAspect, built, bCommand>>

VARIABLES
    epc,            \* position in execute_ffmpeg
    plan,           \* what the engine process is going to write, in order
    exit_code,      \* the status the engine process exits with
    progress_callback,  \* TRUE: a callback was passed
    written,        \* number of writes the engine has completed
    engine,         \* "running", "exited"
    stdoutPipe,     \* units of data waiting in the stdout pipe
    stderrPipe,     \* lines waiting in the stderr pipe
    duration,       \* << >> for None, <<d>> for the float d
    reports,        \* the percentages passed to progress_callback
    stderr_output   \* the lines the RenderingError message carries

evars == <<epc, plan, exit_code, progress_callback, written, engine,
           stdoutPipe, stderrPipe, duration, reports, stderr_output>>

\* ------------------------------------------------------------------------
\* utils/validators.py
\* ------------------------------------------------------------------------
\* sorted(xs, key): stable insertion sort of a list of object ids.
RECURSIVE InsertByKey(_, _, _)
InsertByKey(sorted, x, key) ==
    IF sorted = << >> THEN <<x>>
    ELSE IF key[x] < key[Head(sorted)] THEN <<x>> \o sorted
    ELSE <<Head(sorted)>> \o InsertByKey(Tail(sorted), x, key)

RECURSIVE SortedBy(_, _)
SortedBy(xs, key) ==
    IF xs = << >> THEN << >>
    ELSE InsertByKey(SortedBy(SubSeq(xs, 1, Len(xs) - 1), key), xs[Len(xs)], key)

\* The comparison with the bound taken as exclusive.
SpacedEnoughStrict(timestamp, last_insertion_time, ivl, mpi) ==
    FSub(timestamp, last_insertion_time) > FDiv(ivl, mpi)

SpacedEnough(timestamp, last_insertion_time, ivl, mpi) ==
    FSub(timestamp, last_insertion_time) >= FDiv(ivl, mpi)

\* The walk with the update of last_insertion_time left out.
RECURSIVE FrequencyWalkNoUpdate(_, _, _, _, _, _)
FrequencyWalkNoUpdate(sorted_insertions, h, last_insertion_time, acc, ivl, mpi) ==
    IF sorted_insertions = << >> THEN acc
    ELSE LET insertion == Head(sorted_insertions)
             ts == h[insertion].timestamp
         IN  IF SpacedEnough(ts, last_insertion_time, ivl, mpi)
             THEN FrequencyWalkNoUpdate(Tail(sorted_insertions), h,
                                        last_insertion_time,
                                        Append(acc, insertion), ivl, mpi)
             ELSE FrequencyWalkNoUpdate(Tail(sorted_insertions), h,
                                        last_insertion_time, acc, ivl, mpi)

RECURSIVE FrequencyWalk(_, _, _, _, _, _)
FrequencyWalk(sorted_insertions, h, last_insertion_time, acc, ivl, mpi) ==
    IF sorted_insertions = << >> THEN acc
    ELSE LET insertion == Head(sorted_insertions)
             ts == h[insertion].timestamp
         IN  IF SpacedEnough(ts, last_insertion_time, ivl, mpi)
             THEN FrequencyWalk(Tail(sorted_insertions), h, ts,
                                Append(acc, insertion), ivl, mpi)
             ELSE FrequencyWalk(Tail(sorted_insertions), h,
                                last_insertion_time, acc, ivl, mpi)

validate_insertions_frequency(insertions, h, mpi, ivl) ==
    IF insertions = << >> THEN << >>
    ELSE FrequencyWalk(SortedBy(insertions, [i \in DOMAIN h |-> h[i].timestamp]),
                       h, -ivl, << >>, ivl, mpi)

\* The iteration with the minimum retained duration taken as exclusive.
BoundsStepStrictMin(acc, insertion, vd) ==
    LET h == acc[2]
        ins == h[insertion]
        insertion_end == FAdd(ins.timestamp, ins.duration)
        new_duration == FSub(vd, ins.timestamp)
    IN  IF ins.timestamp < 0 THEN acc
        ELSE IF insertion_end > vd
             THEN IF new_duration > MinDuration
                  THEN <<Append(acc[1], insertion),
                         [h EXCEPT ![insertion].duration = new_duration]>>
                  ELSE acc
             ELSE <<Append(acc[1], insertion), h>>

\* One iteration of the loop of validate_insertion_bounds: the pair of the
\* list of kept objects and the heap, after visiting one insertion.
BoundsStep(acc, insertion, vd) ==
    LET h == acc[2]
        ins == h[insertion]
        insertion_end == FAdd(ins.timestamp, ins.duration)
        new_duration == FSub(vd, ins.timestamp)
    IN  IF ins.timestamp < 0 THEN acc
        ELSE IF insertion_end > vd
             THEN IF new_duration >= MinDuration
                  THEN <<Append(acc[1], insertion),
                         [h EXCEPT ![insertion].duration = new_duration]>>
                  ELSE acc
             ELSE <<Append(acc[1], insertion), h>>

RECURSIVE BoundsWalk(_, _, _)
BoundsWalk(insertions, acc, vd) ==
    IF insertions = << >> THEN acc
    ELSE BoundsWalk(Tail(insertions), BoundsStep(acc, Head(insertions), vd), vd)

validate_insertion_bounds(insertions, h, vd) ==
    BoundsWalk(insertions, << << >>, h >>, vd)

\* ------------------------------------------------------------------------
\* models/timeline.py
\* ------------------------------------------------------------------------
NoPath ==
    [file |-> "none", n |-> 0]

AssetPath(i) ==
    [file |-> "asset", n |-> i]

VideoPath ==
    [file |-> "video", n |-> 0]

OutputPath ==
    [file |-> "output", n |-> 0]

calculate_position(position, aspect) ==
    CASE position = "top-left" -> [x |-> "20", y |-> "20"]
      [] position = "top-right" -> [x |-> "W-w-20", y |-> "20"]
      [] position = "bottom-left" -> [x |-> "20", y |-> "H-h-20"]
      [] position = "bottom-right" -> [x |-> "W-w-20", y |-> "H-h-20"]
      [] position = "center" -> [x |-> "(W-w)/2", y |-> "(H-h)/2"]
      [] OTHER -> [x |-> "W-w-20", y |-> "20"]

\* f"ins_{idx:03d}"
FormatId(idx) ==
    [prefix |-> "ins_",
     digits |-> <<(idx \div 100) % 10, (idx \div 10) % 10, idx % 10>>]

SkippedNever(decision) ==
    FALSE

\* if not decision.asset_path: continue
Skipped(decision) ==
    decision.asset_path = NoPath

TimelineInsertion(idx, decision, aspect) ==
    [id |-> FormatId(idx),
     timestamp |-> decision.timestamp,
     duration |-> decision.duration,
     asset_path |-> decision.asset_path,
     asset_type |-> IF decision.asset_type = "none" THEN "image"
                    ELSE decision.asset_type,
     position |-> calculate_position(
                      IF decision.position = "none" THEN "top-right"
                      ELSE decision.position, aspect)]

\* The loop with each insertion put in front of the list.
RECURSIVE BuildInsertionsPrepend(_, _, _, _)
BuildInsertionsPrepend(ds, idx, aspect, acc) ==
    IF idx >= Len(ds) THEN acc
    ELSE IF Skipped(ds[idx + 1])
         THEN BuildInsertionsPrepend(ds, idx + 1, aspect, acc)
         ELSE BuildInsertionsPrepend(ds, idx + 1, aspect,
                  <<TimelineInsertion(idx, ds[idx + 1], aspect)>> \o acc)

\* The loop of from_decisions, from the idx-th decision (0-based) on.
RECURSIVE BuildInsertions(_, _, _, _)
BuildInsertions(ds, idx, aspect, acc) ==
    IF idx >= Len(ds) THEN acc
    ELSE IF Skipped(ds[idx + 1])
         THEN BuildInsertions(ds, idx + 1, aspect, acc)
         ELSE BuildInsertions(ds, idx + 1, aspect,
                  Append(acc, TimelineInsertion(idx, ds[idx + 1], aspect)))

LowMax == 5
MediumMax == 10

\* The classes with their thresholds taken as inclusive.
ComplexityInclusive(n) ==
    IF n >= MediumMax THEN "high"
    ELSE IF n >= LowMax THEN "medium"
    ELSE "low"

Complexity(n) ==
    IF n > MediumMax THEN "high"
    ELSE IF n > LowMax THEN "medium"
    ELSE "low"

RECURSIVE MaxEnd(_, _)
MaxEnd(ins, best) ==
    IF ins = << >> THEN best
    ELSE LET e == FAdd(Head(ins).timestamp, Head(ins).duration)
         IN  MaxEnd(Tail(ins), IF e > best THEN e ELSE best)

from_decisions(base_video, aspect, ds) ==
    LET insertions == BuildInsertions(ds, 0, aspect, << >>)
    IN  [base_video |-> base_video,
         aspect_ratio |-> aspect,
         insertions |-> insertions,
         metadata |->
             [total_insertions |-> Len(insertions),
              total_duration |->
                  IF insertions = << >> THEN 0
                  ELSE MaxEnd(Tail(insertions),
                              FAdd(insertions[1].timestamp,
                                   insertions[1].duration)),
              render_complexity |-> Complexity(Len(insertions))]]

\* ------------------------------------------------------------------------
\* services/renderer.py: build_filter_complex, build_ffmpeg_command
\* ------------------------------------------------------------------------
Label(name, i) ==
    [n |-> name, i |-> i]

InputIndexSameAsIdx(idx) ==
    idx

\* input_index = idx + 1
InputIndex(idx) ==
    idx + 1

\* The per-asset chain as the joined filter_parts give it; the image branch
\* ends in the literal text "[overlay{idx}]".
AssetChain(idx, insertion) ==
    IF insertion.asset_type = "video"
    THEN [kind |-> "chain",
          src |-> <<Label("in", InputIndex(idx))>>,
          stages |-> <<"scale", "fade_in", "fade_out", "trim", "setpts",
                       "format", "colorchannelmixer">>,
          x |-> "", y |-> "", from |-> 0, to |-> 0,
          dst |-> Label("overlay", idx)]
    ELSE [kind |-> "chain",
          src |-> <<Label("in", InputIndex(idx))>>,
          stages |-> <<"scale", "fade_in", "fade_out", "format",
                       "colorchannelmixer", "loop">>,
          x |-> "", y |-> "", from |-> 0, to |-> 0,
          dst |-> Label("overlay{idx}", 0)]

ReplacePlaceholderNone(filter, idx) ==
    filter

\* .replace("[overlay{idx}]", f"[overlay{idx}]")
ReplacePlaceholder(filter, idx) ==
    IF filter.dst = Label("overlay{idx}", 0)
    THEN [filter EXCEPT !.dst = Label("overlay", idx)]
    ELSE filter

\* The overlay stage laid over the source stream whatever the running base.
OverlayFilterOnSource(idx, insertion, overlay_chain, next_chain) ==
    [kind |-> "overlay",
     src |-> <<Label("in", 0), Label("overlay", idx)>>,
     stages |-> <<"overlay">>,
     x |-> insertion.position.x,
     y |-> insertion.position.y,
     from |-> insertion.timestamp,
     to |-> FAdd(insertion.timestamp, insertion.duration),
     dst |-> next_chain]

OverlayFilter(idx, insertion, overlay_chain, next_chain) ==
    [kind |-> "overlay",
     src |-> <<overlay_chain, Label("overlay", idx)>>,
     stages |-> <<"overlay">>,
     x |-> insertion.position.x,
     y |-> insertion.position.y,
     from |-> insertion.timestamp,
     to |-> FAdd(insertion.timestamp, insertion.duration),
     dst |-> next_chain]

RECURSIVE FilterLoop(_, _, _, _)
FilterLoop(insertions, idx, overlay_chain, filters) ==
    IF idx >= Len(insertions) THEN filters
    ELSE LET insertion == insertions[idx + 1]
             next_chain == IF idx = Len(insertions) - 1
                           THEN Label("outv", 0)
                           ELSE Label("tmp", idx)
         IN  FilterLoop(insertions, idx + 1, next_chain,
                 filters \o
                 <<ReplacePlaceholder(AssetChain(idx, insertion), idx),
                   OverlayFilter(idx, insertion, overlay_chain, next_chain)>>)

build_filter_complex(timeline) ==
    FilterLoop(timeline.insertions, 0, Label("in", 0), << >>)

build_ffmpeg_command(timeline, output_path, filter_complex) ==
    [inputs |-> <<timeline.base_video>> \o
                [k \in 1..Len(timeline.insertions) |->
                     timeline.insertions[k].asset_path],
     filter_complex |-> filter_complex,
     maps |-> <<Label("outv", 0), Label("0:a?", 0)>>,
     output |-> output_path]

\* ------------------------------------------------------------------------
\* services/renderer.py: execute_ffmpeg, render
\* ------------------------------------------------------------------------
\* What the environment does during one call of render: get_video_info
\* (probe) and subprocess.Popen either work or raise; the engine exits with
\* a code and writes the whole output file, a part of it, or nothing.
EngineOutcomes ==
    { [probe |-> "RuntimeError", popen |-> "ok", exit |-> 0, write |-> "none"],
      [probe |-> "ok", popen |-> "OSError", exit |-> 0, write |-> "none"],
      [probe |-> "ok", popen |-> "ok", exit |-> 0, write |-> "complete"],
      [probe |-> "ok", popen |-> "ok", exit |-> 0, write |-> "none"],
      [probe |-> "ok", popen |-> "ok", exit |-> 1, write |-> "partial"] }

Absent ==
    [kind |-> "absent", ins |-> << >>]

SourceCopy ==
    [kind |-> "source", ins |-> << >>]

Partial ==
    [kind |-> "partial", ins |-> << >>]

Composite(insertions) ==
    [kind |-> "composite", ins |-> insertions]

copy2Nothing(src, file) ==
    file

\* shutil.copy2(video, output): the content of output afterwards.
copy2(src, file) ==
    SourceCopy

\* The content of the output path after the engine ran (ffmpeg -y).
EngineWrite(file, env, timeline) ==
    IF env.popen # "ok" THEN file
    ELSE IF env.write = "complete" THEN Composite(timeline.insertions)
    ELSE IF env.write = "partial" THEN Partial
    ELSE file

\* except subprocess.SubprocessError / except Exception of execute_ffmpeg.
ExecuteHandler(exc) ==
    IF exc = "none" THEN "none" ELSE "RenderingError"

\* The exception execute_ffmpeg ends with ("none": it returns).
execute_ffmpeg(command, env) ==
    ExecuteHandler(IF env.popen # "ok" THEN env.popen
                   ELSE IF env.exit # 0 THEN "RenderingError"
                   ELSE "none")

RenderHandlerOwnErrorOnly(exc) ==
    exc

\* except Exception as e: raise RenderingError(...) of render.
RenderHandler(exc) ==
    IF exc = "none" THEN "none" ELSE "RenderingError"

OutputMissingNever(file) ==
    FALSE

\* if not os.path.exists(output)
OutputMissing(file) ==
    file.kind = "absent"

EmptyShortcutNever(timeline) ==
    FALSE

\* if not timeline.insertions: copy the source and return
EmptyShortcut(timeline) ==
    timeline.insertions = << >>

\* render, given the Timeline that from_decisions made of ds and the filter
\* graph that build_filter_complex makes of that Timeline.
render(timeline, filter_complex, video, ds, file, env) ==
    LET command == build_ffmpeg_command(timeline, OutputPath, filter_complex)
        compiled == env.probe = "ok"
        ran == compiled /\ env.popen = "ok"
        after == IF compiled THEN EngineWrite(file, env, timeline) ELSE file
        raw == IF ~compiled THEN env.probe
               ELSE IF execute_ffmpeg(command, env) # "none"
                    THEN execute_ffmpeg(command, env)
               ELSE IF OutputMissing(after) THEN "RenderingError"
               ELSE "none"
    IN  IF EmptyShortcut(timeline)
        THEN [called |-> TRUE, decisions |-> ds, timeline |-> timeline,
              compiled |-> FALSE, ran |-> FALSE, exit |-> -1,
              filter_complex |-> << >>, inputs |-> << >>,
              raw |-> "none", exc |-> "none", file |-> copy2(video, file)]
        ELSE [called |-> TRUE, decisions |-> ds, timeline |-> timeline,
              compiled |-> compiled, ran |-> ran,
              exit |-> IF ran THEN env.exit ELSE -1,
              filter_complex |-> IF compiled THEN filter_complex ELSE << >>,
              inputs |-> IF compiled THEN command.inputs ELSE << >>,
              raw |-> raw, exc |-> RenderHandler(raw), file |-> after]

\* ------------------------------------------------------------------------
\* services/renderer.py: render_with_retry
\* ------------------------------------------------------------------------
MaxRetriesValues ==
    {-1, 0, 2, 3}

AspectRatios ==
    {"9:16"}

AssetKinds ==
    {"none", "image", "video"}

Positions ==
    <<"top-left", "bottom-right", "center", "top-right", "bottom-left">>

\* Decisions reach the renderer in timestamp order, at least 10 s apart.
DecisionTimestamp(i) ==
    IF i = 1 THEN 0 ELSE 40 * Pow2(i - 2)

Decision(i, confidence, kind) ==
    [id |-> i,
     timestamp |-> DecisionTimestamp(i),
     duration |-> 6,
     confidence |-> confidence,
     position |-> Positions[((i - 1) % Len(Positions)) + 1],
     asset_path |-> IF kind = "none" THEN NoPath ELSE AssetPath(i),
     asset_type |-> kind]

VARIABLES
    rpc,                \* "loop", "except", "returned", "raised"
    decisions,          \* the caller's list
    aspect_ratio,
    max_retries,
    attempt,
    current_decisions,
    outFile,            \* content of the output path
    last,               \* the call of render of the current iteration
    pending,            \* the exception being handled
    outcome,            \* how render_with_retry ended
    renders,            \* calls of render so far
    fails,              \* calls of render that raised RenderingError
    sets                \* current_decisions of every attempt so far

rvars == <<rpc, decisions, aspect_ratio, max_retries, attempt,
           current_decisions, outFile, last, pending, outcome, renders,
           fails, sets>>

vars == <<rvars, vvars, bvars, evars>>

NoCall ==
    [called |-> FALSE, decisions |-> << >>,
     timeline |-> from_decisions(VideoPath, "9:16", << >>),
     compiled |-> FALSE, ran |-> FALSE, exit |-> -1,
     filter_complex |-> << >>, inputs |-> << >>,
     raw |-> "none", exc |-> "none", file |-> Absent]

\* indices of xs in the order sorted(xs, key=confidence, reverse=True) gives
ByConfidenceDesc(xs) ==
    LET order == SortedBy([k \in 1..Len(xs) |-> k],
                          [k \in 1..Len(xs) |-> -(xs[k].confidence)])
    IN  [k \in 1..Len(xs) |-> xs[order[k]]]

Reverse(xs) ==
    [k \in 1..Len(xs) |-> xs[Len(xs) + 1 - k]]

\* sorted(current_decisions, key=confidence)[::-1][:len // 2]
ReduceFirstUnstable(cur) ==
    LET order == Reverse(SortedBy([k \in 1..Len(cur) |-> k],
                                  [k \in 1..Len(cur) |-> cur[k].confidence]))
    IN  SubSeq([k \in 1..Len(cur) |-> cur[order[k]]], 1, Len(cur) \div 2)

\* sorted(current_decisions, key=confidence, reverse=True)[:len // 2]
ReduceFirst(cur) ==
    SubSeq(ByConfidenceDesc(cur), 1, Len(cur) \div 2)

\* max(current_decisions, key=confidence): the first maximal element.
RECURSIVE MaxByConfidence(_, _)
MaxByConfidence(xs, best) ==
    IF xs = << >> THEN best
    ELSE MaxByConfidence(Tail(xs),
             IF Head(xs).confidence > best.confidence THEN Head(xs) ELSE best)

\* The later reduction keeping the last decision of the list.
ReduceLaterLast(cur) ==
    <<cur[Len(cur)]>>

ReduceLater(cur) ==
    <<MaxByConfidence(Tail(cur), Head(cur))>>

ExhaustedOneEarly(att, maxr) ==
    att >= maxr

\* if attempt > max_retries
Exhausted(att, maxr) ==
    att > maxr

\* except RenderingError
RetryCatches(exc) ==
    exc = "RenderingError"

VIdle ==
    /\ vpc = "idle"
    /\ vInput = << >>
    /\ heap = << >>
    /\ heap0 = << >>
    /\ interval = 0
    /\ max_per_interval = 1
    /\ video_duration = 0
    /\ filtered = << >>
    /\ valid = << >>

NoCommand ==
    [inputs |-> << >>, filter_complex |-> << >>, maps |-> << >>,
     output |-> NoPath]

BIdle ==
    /\ bpc = "idle"
    /\ bDecisions = << >>
    /\ bAspect = "9:16"
    /\ built = from_decisions(VideoPath, "9:16", << >>)
    /\ bCommand = NoCommand

EIdle ==
    /\ epc = "idle"
    /\ plan = << >>
    /\ exit_code = 0
    /\ progress_callback = FALSE
    /\ written = 0
    /\ engine = "exited"
    /\ stdoutPipe = 0
    /\ stderrPipe = << >>
    /\ duration = << >>
    /\ reports = << >>
    /\ stderr_output = << >>

RInit ==
    /\ rpc = "loop"
    /\ \E n \in 0..MaxDecisions :
          \E conf \in [1..n -> ConfidenceValues] :
             \E kind \in [1..n -> AssetKinds] :
                decisions = [i \in 1..n |-> Decision(i, conf[i], kind[i])]
    /\ aspect_ratio \in AspectRatios
    /\ max_retries \in MaxRetriesValues
    /\ attempt = 0
    /\ current_decisions = decisions
    /\ outFile = Absent
    /\ last = NoCall
    /\ pending = "none"
    /\ outcome = "none"
    /\ renders = 0
    /\ fails = 0
    /\ sets = <<decisions>>

Init ==
    RInit /\ VIdle /\ BIdle /\ EIdle

\* try: return render(video, current_decisions, output, aspect_ratio, config)
TryRender ==
    /\ rpc = "loop"
    /\ attempt <= max_retries
    /\ \E timeline \in {from_decisions(VideoPath, aspect_ratio,
                                         current_decisions)} :
       \E filter_complex \in {build_filter_complex(timeline)} :
       \E env \in EngineOutcomes :
          \E res \in {render(timeline, filter_complex, VideoPath,
                              current_decisions, outFile, env)} :
              /\ last' = res
              /\ outFile' = res.file
              /\ pending' = res.exc
              /\ rpc' = IF res.exc = "none" THEN "returned"
                        ELSE IF RetryCatches(res.exc) THEN "except"
                        ELSE "raised"
              /\ outcome' = IF res.exc = "none" THEN "rendered"
                            ELSE IF RetryCatches(res.exc) THEN outcome
                            ELSE "raised"
              /\ fails' = IF res.exc = "RenderingError" THEN fails + 1
                          ELSE fails
    /\ renders' = renders + 1
    /\ UNCHANGED <<decisions, aspect_ratio, max_retries, attempt,
                   current_decisions, sets>>
    /\ UNCHANGED <<vvars, bvars, evars>>

\* The handler with the reduction done in place on the caller's list.
HandleRetryInPlace ==
    /\ rpc = "except"
    /\ ~Exhausted(attempt + 1, max_retries)
    /\ attempt' = attempt + 1
    /\ IF attempt + 1 = 1
       THEN /\ current_decisions' = ReduceFirst(current_decisions)
            /\ rpc' = "loop"
            /\ UNCHANGED <<pending, outcome>>
       ELSE IF current_decisions = << >>
            THEN /\ rpc' = "raised"
                 /\ pending' = "ValueError"
                 /\ outcome' = "raised"
                 /\ UNCHANGED current_decisions
            ELSE /\ current_decisions' = ReduceLater(current_decisions)
                 /\ rpc' = "loop"
                 /\ UNCHANGED <<pending, outcome>>
    /\ decisions' = current_decisions'
    /\ sets' = IF rpc' = "loop" THEN Append(sets, current_decisions')
               ELSE sets
    /\ last' = NoCall
    /\ UNCHANGED <<aspect_ratio, max_retries, outFile, renders, fails>>
    /\ UNCHANGED <<vvars, bvars, evars>>

\* except RenderingError, retries left: reduce the set and loop.
HandleRetry ==
    /\ rpc = "except"
    /\ ~Exhausted(attempt + 1, max_retries)
    /\ attempt' = attempt + 1
    /\ IF attempt + 1 = 1
       THEN /\ current_decisions' = ReduceFirst(current_decisions)
            /\ rpc' = "loop"
            /\ UNCHANGED <<pending, outcome>>
       ELSE IF current_decisions = << >>
            THEN /\ rpc' = "raised"
                 /\ pending' = "ValueError"
                 /\ outcome' = "raised"
                 /\ UNCHANGED current_decisions
            ELSE /\ current_decisions' = ReduceLater(current_decisions)
                 /\ rpc' = "loop"
                 /\ UNCHANGED <<pending, outcome>>
    /\ sets' = IF rpc' = "loop" THEN Append(sets, current_decisions')
               ELSE sets
    /\ last' = NoCall
    /\ UNCHANGED <<decisions, aspect_ratio, max_retries, outFile, renders,
                   fails>>
    /\ UNCHANGED <<vvars, bvars, evars>>

\* except RenderingError, retries exhausted: copy the source and return.
HandleFallback ==
    /\ rpc = "except"
    /\ Exhausted(attempt + 1, max_retries)
    /\ attempt' = attempt + 1
    /\ outFile' = copy2(VideoPath, outFile)
    /\ rpc' = "returned"
    /\ outcome' = "fallback"
    /\ UNCHANGED <<decisions, aspect_ratio, max_retries, current_decisions,
                   last, pending, renders, fails, sets>>
    /\ UNCHANGED <<vvars, bvars, evars>>

\* the while condition is false: return output
LoopExit ==
    /\ rpc = "loop"
    /\ ~(attempt <= max_retries)
    /\ rpc' = "returned"
    /\ outcome' = "loop_exit"
    /\ UNCHANGED <<decisions, aspect_ratio, max_retries, attempt,
                   current_decisions, outFile, last, pending, renders, fails,
                   sets>>
    /\ UNCHANGED <<vvars, bvars, evars>>

Next ==
    \/ TryRender
    \/ HandleRetry
    \/ HandleFallback
    \/ LoopExit

Spec ==
    Init /\ [][Next]_vars

\* ------------------------------------------------------------------------
\* The validation pipeline (services/llm.py, analyze)
\* ------------------------------------------------------------------------
VisualInsertions ==
    [timestamp : TimestampValues, duration : DurationValues,
     confidence : ConfidenceValues]

\* analyze hands the validators the insertions that passed its confidence
\* filter.
ConfidentInsertions ==
    {v \in VisualInsertions :
        \A c \in ConfidenceValues : v.confidence >= c}

VInit ==
    /\ vpc = "frequency"
    /\ \E n \in 0..MaxInsertions :
          /\ heap \in [1..n -> ConfidentInsertions]
          /\ vInput = [i \in 1..n |-> i]
    /\ heap0 = heap
    /\ interval \in IntervalValues
    /\ max_per_interval \in MaxPerIntervalValues
    /\ video_duration \in VideoDurationValues
    /\ filtered = << >>
    /\ valid = << >>

ValidateFrequency ==
    /\ vpc = "frequency"
    /\ filtered' = validate_insertions_frequency(vInput, heap, max_per_interval,
                                                 interval)
    /\ vpc' = "bounds"
    /\ UNCHANGED <<vInput, heap, heap0, interval, max_per_interval,
                   video_duration, valid>>
    /\ UNCHANGED <<rvars, bvars, evars>>

ValidateBounds ==
    /\ vpc = "bounds"
    /\ LET res == validate_insertion_bounds(filtered, heap, video_duration)
       IN  /\ valid' = res[1]
           /\ heap' = res[2]
    /\ vpc' = "done"
    /\ UNCHANGED <<vInput, heap0, interval, max_per_interval, video_duration,
                   filtered>>
    /\ UNCHANGED <<rvars, bvars, evars>>


RIdle ==
    /\ rpc = "idle"
    /\ decisions = << >>
    /\ aspect_ratio = "9:16"
    /\ max_retries = 0
    /\ attempt = 0
    /\ current_decisions = << >>
    /\ outFile = Absent
    /\ last = NoCall
    /\ pending = "none"
    /\ outcome = "none"
    /\ renders = 0
    /\ fails = 0
    /\ sets = << >>

VNext ==
    \/ ValidateFrequency
    \/ ValidateBounds

ValidateInit ==
    VInit /\ RIdle /\ BIdle /\ EIdle

ValidateSpec ==
    ValidateInit /\ [][VNext]_vars

\* ------------------------------------------------------------------------
\* A call of validate_insertions_frequency on its own (utils/validators.py)
\* ------------------------------------------------------------------------
\* The function does not look at durations: they are all the minimum.
ShortInsertions ==
    {v \in VisualInsertions : v.duration = MinDuration}

FInit ==
    /\ vpc = "frequency"
    /\ \E n \in 0..MaxInsertions :
          /\ heap \in [1..n -> ShortInsertions]
          /\ vInput = [i \in 1..n |-> i]
    /\ heap0 = heap
    /\ interval \in IntervalValues
    /\ max_per_interval \in MaxPerIntervalValues
    /\ video_duration = 0
    /\ filtered = << >>
    /\ valid = << >>

FNext ==
    ValidateFrequency

FrequencyInit ==
    FInit /\ RIdle /\ BIdle /\ EIdle

FrequencySpec ==
    FrequencyInit /\ [][FNext]_vars

\* ------------------------------------------------------------------------
\* A call of Timeline.from_decisions (models/timeline.py)
\* ------------------------------------------------------------------------
BuildAspectRatios ==
    {"9:16", "16:9"}

BuildAssetKinds ==
    {"none", "image"}

\* Short lists mix all asset kinds, long ones only images and decisions
\* without an asset.
BuildKinds(n) ==
    IF n <= MaxDecisions THEN AssetKinds ELSE BuildAssetKinds

\* The i-th decision of a list, with a duration that differs from its
\* neighbours'.
BuildDecision(i, kind) ==
    [Decision(i, 1, kind) EXCEPT
         !.duration = IF i % 2 = 0 THEN MinDuration ELSE 12]

ProbeOutcomes ==
    {"ok", "RuntimeError"}

BInit ==
    /\ bpc = "call"
    /\ \E n \in 0..MaxBuildDecisions :
          \E kind \in [1..n -> BuildKinds(n)] :
             bDecisions = [i \in 1..n |-> BuildDecision(i, kind[i])]
    /\ bAspect \in BuildAspectRatios
    /\ built = from_decisions(VideoPath, "9:16", << >>)
    /\ bCommand = NoCommand

\* timeline = Timeline.from_decisions(base_video, aspect_ratio, decisions)
BuildTimeline ==
    /\ bpc = "call"
    /\ built' = from_decisions(VideoPath, bAspect, bDecisions)
    /\ bpc' = "built"
    /\ UNCHANGED <<bDecisions, bAspect, bCommand>>
    /\ UNCHANGED <<rvars, vvars, evars>>

\* command = build_ffmpeg_command(timeline, output, config), reached for a
\* Timeline with insertions; get_video_info may raise.
CompileCommand ==
    /\ bpc = "built"
    /\ built.insertions # << >>
    /\ \E probe \in ProbeOutcomes :
          IF probe = "ok"
          THEN /\ bCommand' = build_ffmpeg_command(built, OutputPath,
                                   build_filter_complex(built))
               /\ bpc' = "compiled"
          ELSE /\ bpc' = "raised"
               /\ UNCHANGED bCommand
    /\ UNCHANGED <<bDecisions, bAspect, built>>
    /\ UNCHANGED <<rvars, vvars, evars>>

BNext ==
    \/ BuildTimeline
    \/ CompileCommand

BuildInit ==
    BInit /\ RIdle /\ VIdle /\ EIdle

BuildSpec ==
    BuildInit /\ [][BNext]_vars

\* ------------------------------------------------------------------------
\* services/renderer.py: execute_ffmpeg, the process and its two pipes
\* ------------------------------------------------------------------------
\* hh:mm:ss.cc as the regular expressions capture it (s in quarters of a
\* second).
Clock(h, m, s) ==
    [h |-> h, m |-> m, s |-> s]

DurationClocks ==
    {Clock(0, 0, 0), Clock(0, 0, 8), Clock(0, 0, 16)}

TimeClocks ==
    {Clock(0, 0, 4), Clock(0, 0, 8)}

\* One write of the engine: a unit of data on stdout or a line on stderr.
EngineWrites ==
    {[stream |-> "stdout", kind |-> "data", clock |-> Clock(0, 0, 0)],
     [stream |-> "stderr", kind |-> "other", clock |-> Clock(0, 0, 0)]}
    \cup {[stream |-> "stderr", kind |-> "Duration", clock |-> c] :
              c \in DurationClocks}
    \cup {[stream |-> "stderr", kind |-> "time", clock |-> c] :
              c \in TimeClocks}

ExitCodes ==
    {0, 1}

\* h * 3600 + m * 60 + s
ParseClock(c) ==
    FAdd(FAdd(RoundRat(c.h * 3600 * 4, 1), RoundRat(c.m * 60 * 4, 1)), c.s)

\* not duration: None and 0.0 are both false
NotDuration(d) ==
    d = << >> \/ d[1] = 0

\* min(100, int((current_time / duration) * 100)); the quotient is a float
\* counted in units of 2^-(2 * Precision).
Percentage(current_time, d) ==
    LET unit == Pow2(2 * Precision)
        quotient == RoundRat(current_time * unit, d)
        product == RoundRat(quotient * 100, 1)
        percentage == product \div unit
    IN  IF percentage > 100 THEN 100 ELSE percentage

\* The lines the engine has written to stderr so far.
StderrWritten ==
    SelectSeq(SubSeq(plan, 1, written), LAMBDA w : w.stream = "stderr")

EInit ==
    /\ epc = "readline"
    /\ \E n \in 0..MaxPlan : plan \in [1..n -> EngineWrites]
    /\ exit_code \in ExitCodes
    /\ progress_callback \in BOOLEAN
    /\ written = 0
    /\ engine = "running"
    /\ stdoutPipe = 0
    /\ stderrPipe = << >>
    /\ duration = << >>
    /\ reports = << >>
    /\ stderr_output = << >>

\* The engine writes to stdout; the write waits while the pipe is full.
\* Nothing in execute_ffmpeg reads this pipe.
EngineWritesStdout ==
    /\ engine = "running"
    /\ written < Len(plan)
    /\ plan[written + 1].stream = "stdout"
    /\ stdoutPipe < PipeCapacity
    /\ stdoutPipe' = stdoutPipe + 1
    /\ written' = written + 1
    /\ UNCHANGED <<epc, plan, exit_code, progress_callback, engine,
                   stderrPipe, duration, reports, stderr_output>>
    /\ UNCHANGED <<rvars, vvars, bvars>>

\* The engine writes a line to stderr; the write waits while the pipe is
\* full.
EngineWritesStderr ==
    /\ engine = "running"
    /\ written < Len(plan)
    /\ plan[written + 1].stream = "stderr"
    /\ Len(stderrPipe) < PipeCapacity
    /\ stderrPipe' = Append(stderrPipe, plan[written + 1])
    /\ written' = written + 1
    /\ UNCHANGED <<epc, plan, exit_code, progress_callback, engine,
                   stdoutPipe, duration, reports, stderr_output>>
    /\ UNCHANGED <<rvars, vvars, bvars>>

\* The engine has written everything and exits, which closes its ends of
\* the pipes.
EngineExits ==
    /\ engine = "running"
    /\ written = Len(plan)
    /\ engine' = "exited"
    /\ UNCHANGED <<epc, plan, exit_code, progress_callback, written,
                   stdoutPipe, stderrPipe, duration, reports, stderr_output>>
    /\ UNCHANGED <<rvars, vvars, bvars>>

\* line = process.stderr.readline() gives a line: one iteration of the loop.
ReadLine ==
    /\ epc = "readline"
    /\ stderrPipe # << >>
    /\ LET line == Head(stderrPipe)
           parsed == IF NotDuration(duration) /\ line.kind = "Duration"
                     THEN <<ParseClock(line.clock)>>
                     ELSE duration
       IN  /\ duration' = parsed
           /\ reports' =
                  IF line.kind = "time" /\ ~NotDuration(parsed)
                     /\ progress_callback
                  THEN Append(reports,
                              Percentage(ParseClock(line.clock), parsed[1]))
                  ELSE reports
    /\ stderrPipe' = Tail(stderrPipe)
    /\ UNCHANGED <<epc, plan, exit_code, progress_callback, written, engine,
                   stdoutPipe, stderr_output>>
    /\ UNCHANGED <<rvars, vvars, bvars>>

\* readline() gives '' at the end of the stream: if not line: break
ReadEnd ==
    /\ epc = "readline"
    /\ stderrPipe = << >>
    /\ engine = "exited"
    /\ epc' = "wait"
    /\ UNCHANGED <<plan, exit_code, progress_callback, written, engine,
                   stdoutPipe, stderrPipe, duration, reports, stderr_output>>
    /\ UNCHANGED <<rvars, vvars, bvars>>

\* return_code = process.wait(), and what follows it.
WaitProcess ==
    /\ epc = "wait"
    /\ engine = "exited"
    /\ IF exit_code # 0
       THEN /\ stderr_output' = stderrPipe     \* process.stderr.read()
            /\ stderrPipe' = << >>
            /\ epc' = "raised"
       ELSE /\ epc' = "returned"
            /\ UNCHANGED <<stderrPipe, stderr_output>>
    /\ UNCHANGED <<plan, exit_code, progress_callback, written, engine,
                   stdoutPipe, duration, reports>>
    /\ UNCHANGED <<rvars, vvars, bvars>>

ENext ==
    \/ EngineWritesStdout
    \/ EngineWritesStderr
    \/ EngineExits
    \/ ReadLine
    \/ ReadEnd
    \/ WaitProcess

ExecInit ==
    EInit /\ RIdle /\ VIdle /\ BIdle

ExecSpec ==
    ExecInit /\ [][ENext]_vars

\* ------------------------------------------------------------------------
\* Properties of render_with_retry
\* ------------------------------------------------------------------------
Elems(xs) ==
    {xs[k] : k \in 1..Len(xs)}

InsertionsOf(ds) ==
    from_decisions(VideoPath, aspect_ratio, ds).insertions

\* C1: whenever render_with_retry returns (max_retries >= 0), the output
\* path holds the composite of the full insertion set, the composite of a
\* reduced insertion set, or an exact copy of the source; never nothing and
\* never the leftover of a failed attempt.
C1_OutputAlwaysValid ==
    (rpc = "returned" /\ max_retries >= 0) =>
        \/ outFile = SourceCopy
        \/ \E k \in 1..Len(sets) : outFile = Composite(InsertionsOf(sets[k]))

\* C2: render_with_retry starts at attempt 0 with the full decision set,
\* stops at the first successful render, calls render at most
\* max_retries + 1 times, and takes the fallback exactly after the
\* (max_retries + 1)-th failure.
C2_BoundedAttempts ==
    /\ renders <= (IF max_retries >= 0 THEN max_retries + 1 ELSE 0)
    /\ (renders = 0 /\ rpc = "loop") =>
           (attempt = 0 /\ current_decisions = decisions)
    /\ renders - fails \in {0, 1}
    /\ (renders - fails = 1) => rpc = "returned"
    /\ rpc = "loop" => (attempt = fails /\ renders = fails)
    /\ outcome = "fallback" =>
           (rpc = "returned" /\ fails = max_retries + 1 /\ renders = fails)

C2_Witness ==
    /\ outcome = "fallback"
    /\ max_retries = 2
    /\ renders = 3
    /\ Len(sets) = 3
    /\ Len(sets[1]) = 4 /\ Len(sets[2]) = 2 /\ Len(sets[3]) = 1

\* Position of a decision in a list.
PosIn(xs, d) ==
    CHOOSE k \in 1..Len(xs) : xs[k] = d

IsTopHalf(cur, red) ==
    /\ 2 * Len(red) <= Len(cur)
    /\ Len(cur) < 2 * Len(red) + 2
    /\ Cardinality(Elems(red)) = Len(red)
    /\ Elems(red) \subseteq Elems(cur)
    /\ \A r \in Elems(red) : \A d \in Elems(cur) \ Elems(red) :
          \/ r.confidence > d.confidence
          \/ (r.confidence = d.confidence /\ PosIn(cur, r) < PosIn(cur, d))

IsSingleBest(cur, red) ==
    /\ Len(red) = 1
    /\ red[1] \in Elems(cur)
    /\ \A d \in Elems(cur) : d.confidence <= red[1].confidence

\* C3: the set kept after the first RenderError is the top half of the
\* current set by descending confidence, equal confidences in original
\* order; the set kept after every later RenderError is the single
\* highest-confidence decision of the current set.
C3_ReductionPolicy ==
    /\ Len(sets) >= 2 => IsTopHalf(sets[1], sets[2])
    /\ \A k \in 3..Len(sets) : IsSingleBest(sets[k - 1], sets[k])

C3_Witness ==
    /\ Len(sets) = 4
    /\ Len(sets[1]) = 4
    /\ \E r \in Elems(sets[2]) : \E d \in Elems(sets[1]) \ Elems(sets[2]) :
          r.confidence = d.confidence
    /\ sets[2][1].confidence = sets[2][2].confidence

\* C4: once a RenderError has exhausted the retries, render_with_retry has
\* copied the source to the output path, over whatever the failed attempt
\* left there, and returns normally.
C4_FallbackCopiesSource ==
    (max_retries >= 0 /\ fails > max_retries /\ rpc # "except") =>
        /\ rpc = "returned"
        /\ outcome = "fallback"
        /\ outFile = SourceCopy

C4_Witness ==
    /\ outcome = "fallback"
    /\ rpc = "returned"
    /\ last.file = Partial
    /\ outFile = SourceCopy

\* C5: across successive failed attempts the retained insertion count
\* strictly decreases until it reaches 1 (and is then 1), and once the
\* retries are exhausted the output is the verbatim source copy.
C5_DegradationMonotone ==
    /\ \A k \in 1..(Len(sets) - 1) :
          IF Len(sets[k]) > 1
          THEN Len(sets[k + 1]) < Len(sets[k]) /\ Len(sets[k + 1]) >= 1
          ELSE Len(sets[k + 1]) = 1
    /\ (max_retries >= 0 /\ fails > max_retries /\ rpc = "returned") =>
           outFile = SourceCopy

\* C6: a failure raised while compiling the filter graph or running the
\* engine reaches render_with_retry as a RenderingError, which its handler
\* turns into a retry or into the fallback; nothing escapes
\* render_with_retry.
C6_NoEscape ==
    /\ [](rpc # "raised")
    /\ [](last.raw # "none" =>
             /\ last.exc = "RenderingError"
             /\ pending = "RenderingError"
             /\ rpc = "except" \/ (rpc = "returned" /\ outcome = "fallback"))
    /\ [][rpc = "except" =>
             \/ (rpc' = "loop" /\ attempt' <= max_retries)
             \/ (rpc' = "returned" /\ outcome' = "fallback")]_vars

C6_Witness ==
    /\ last.raw = "RuntimeError"
    /\ ~last.compiled
    /\ fails = 2
    /\ rpc = "except"

\* C7: when the decision list is empty or no decision in it has an asset
\* path, render copies the source to the output without compiling a filter
\* graph or running the engine, and returns normally.
C7_EmptyShortcut ==
    (last.called /\ \A d \in Elems(last.decisions) : d.asset_path = NoPath) =>
        /\ last.exc = "none"
        /\ ~last.compiled
        /\ ~last.ran
        /\ last.file = SourceCopy
        /\ outFile = SourceCopy
        /\ rpc = "returned"

C7_Witness ==
    /\ last.called
    /\ Len(last.decisions) >= 2
    /\ \A d \in Elems(last.decisions) : d.asset_path = NoPath
    /\ renders = 1

Filters(g) ==
    {g[k] : k \in 1..Len(g)}

\* C8: in every render attempt, for every i, engine input i + 1 is the asset
\* of the i-th timeline insertion, the chain reading input i + 1 produces
\* overlay_i, and the overlay stage consuming overlay_i has the i-th
\* insertion's coordinates and the gate
\* between(t, timestamp_i, timestamp_i + duration_i).
C8_IndexAlignment ==
    last.compiled =>
        LET ins == last.timeline.insertions
            g == last.filter_complex
            reads(i) == {f \in Filters(g) :
                            f.kind = "chain" /\ f.src = <<Label("in", i + 1)>>}
            uses(i) == {f \in Filters(g) :
                           /\ f.kind = "overlay"
                           /\ \E k \in 1..Len(f.src) :
                                 f.src[k] = Label("overlay", i)}
        IN  /\ Len(last.inputs) = Len(ins) + 1
            /\ last.inputs[1] = VideoPath
            /\ \A i \in 0..(Len(ins) - 1) :
                  /\ last.inputs[i + 2] = ins[i + 1].asset_path
                  /\ Cardinality(reads(i)) = 1
                  /\ \A f \in reads(i) : f.dst = Label("overlay", i)
                  /\ Cardinality(uses(i)) = 1
                  /\ \A f \in uses(i) :
                        /\ f.x = ins[i + 1].position.x
                        /\ f.y = ins[i + 1].position.y
                        /\ f.from = ins[i + 1].timestamp
                        /\ f.to = FAdd(ins[i + 1].timestamp,
                                       ins[i + 1].duration)

C8_Witness ==
    /\ last.compiled
    /\ attempt >= 1
    /\ Len(last.timeline.insertions) = 2
    /\ last.timeline.insertions[1].asset_type = "image"
    /\ last.timeline.insertions[2].asset_type = "video"
    /\ last.exc = "none"

\* C13: the Timeline built for every render attempt, the first one and
\* every retry with a reduced set, has its insertions in non-decreasing
\* timestamp order.
C13_TimestampOrder ==
    last.called =>
        \A k \in 1..(Len(last.timeline.insertions) - 1) :
            last.timeline.insertions[k].timestamp
                <= last.timeline.insertions[k + 1].timestamp

\* C17 as stated: a render attempt with a non-empty Timeline fails with
\* RenderingError exactly when the engine exits with a non-zero code or the
\* output file does not exist after the run, and returns when the exit code
\* is 0 and the output file exists.
C17_FailsOnlyOnExitOrMissing ==
    (last.called /\ last.timeline.insertions # << >>) =>
        /\ last.exc = "RenderingError" <=>
               (last.ran /\ (last.exit # 0 \/ last.file.kind = "absent"))
        /\ (last.ran /\ last.exit = 0 /\ last.file.kind # "absent") =>
               last.exc = "none"

\* C17: a render attempt with a non-empty Timeline fails with
\* RenderingError exactly when compiling the command raises, the engine
\* cannot be started, the engine exits with a non-zero code, or the output
\* file does not exist after the run; otherwise (the engine ran, exit code
\* 0, output file present) it returns the output path. No other exception
\* leaves render.
C17_FailureConditions ==
    (last.called /\ last.timeline.insertions # << >>) =>
        /\ last.exc \in {"none", "RenderingError"}
        /\ last.exc = "RenderingError" <=>
               \/ ~last.compiled
               \/ ~last.ran
               \/ last.exit # 0
               \/ last.file.kind = "absent"
        /\ last.exc = "none" => (rpc = "returned" /\ outcome = "rendered")

\* The engine ran and exited with 0 without leaving an output file.
C17_Witness ==
    /\ last.called
    /\ last.ran
    /\ last.exit = 0
    /\ last.file = Absent
    /\ last.exc = "RenderingError"

\* C21: no mutable state crosses attempts: every render attempt builds
\* its Timeline (and from it the graph) from the current decision list, and the
\* caller's decision list (length, order, records) is at every moment what
\* it was when render_with_retry was called.
C21_NoSharedState ==
    /\ decisions = sets[1]
    /\ last.called =>
           /\ last.decisions = current_decisions
           /\ last.timeline =
                  from_decisions(VideoPath, aspect_ratio, current_decisions)

\* A retry has rendered a reduced, non-empty set.
C21_Witness ==
    /\ last.called
    /\ last.compiled
    /\ fails >= 1
    /\ Len(sets) >= 2
    /\ current_decisions # decisions

\* C27: for every max_retries, also 0 and negative ones, render_with_retry
\* returns the output path only after a call of render has completed
\* successfully or the source has been copied to the output path.
C27_ReturnsOnlyAfterWork ==
    rpc = "returned" =>
        \/ renders - fails = 1
        \/ outcome = "fallback"

\* C28: the reduction never runs on an empty list: whenever the branch for
\* attempt >= 2 is about to take the decision of maximum confidence, the
\* current decision list is non-empty, since a render whose Timeline is
\* empty does not raise RenderingError.
C28_ReductionNeverOnEmpty ==
    /\ (rpc = "except" /\ attempt + 1 >= 2
            /\ ~Exhausted(attempt + 1, max_retries)) =>
           current_decisions # << >>
    /\ pending # "ValueError"
    /\ (last.called /\ last.timeline.insertions = << >>) =>
           last.exc = "none"

\* The second failure with a retry left, after the first retry has rendered
\* a reduced list.
C28_Witness ==
    /\ rpc = "except"
    /\ attempt + 1 = 2
    /\ ~Exhausted(attempt + 1, max_retries)
    /\ Len(decisions) > Len(current_decisions)

HasMaxConfidence(d, ds) ==
    \A k \in 1..Len(ds) : ds[k].confidence <= d.confidence

\* C29: across the attempts of one call, the decision set of each retry is
\* a sub-collection of the previous attempt's set, and a non-empty retry
\* set contains a decision whose confidence is the maximum confidence of
\* the original list.
C29_RetrySetsShrink ==
    \A k \in 2..Len(sets) :
        /\ \A i \in 1..Len(sets[k]) :
              \E j \in 1..Len(sets[k - 1]) : sets[k][i] = sets[k - 1][j]
        /\ Len(sets[k]) <= Len(sets[k - 1])
        /\ sets[k] # << >> =>
               \E i \in 1..Len(sets[k]) :
                   HasMaxConfidence(sets[k][i], decisions)

\* The second retry's set, taken from a first retry's set of two decisions
\* of different confidence.
C29_Witness ==
    /\ Len(sets) = 3
    /\ Len(sets[2]) = 2
    /\ sets[2][1].confidence # sets[2][2].confidence
    /\ Len(sets[3]) = 1

\* ------------------------------------------------------------------------
\* Properties of the validators
\* ------------------------------------------------------------------------
Kept ==
    {valid[k] : k \in 1..Len(valid)}

\* C9: after validate_insertions_frequency followed by
\* validate_insertion_bounds, any two kept insertions a, b with
\* a.timestamp < b.timestamp satisfy
\* b.timestamp - a.timestamp >= interval / max_per_interval.
C9_SpacingInvariant ==
    vpc = "done" =>
        \A a \in Kept : \A b \in Kept :
            heap[a].timestamp < heap[b].timestamp =>
                FSub(heap[b].timestamp, heap[a].timestamp)
                    >= FDiv(interval, max_per_interval)

C9_Witness ==
    /\ vpc = "done"
    /\ Len(filtered) < Len(vInput)
    /\ \E a \in Kept : \E b \in Kept : heap[a].timestamp < heap[b].timestamp

\* C10: every insertion returned by validate_insertion_bounds has
\* timestamp >= 0 and timestamp + duration <= video_duration.
C10_BoundsInvariant ==
    vpc = "done" =>
        \A a \in Kept :
            /\ heap[a].timestamp >= 0
            /\ FAdd(heap[a].timestamp, heap[a].duration) <= video_duration

\* C11: validate_insertion_bounds drops an insertion with timestamp < 0;
\* an insertion whose timestamp + duration exceeds video_duration gets the
\* duration video_duration - timestamp and is kept when that is at least
\* 0.5 s (inclusive), and is dropped otherwise; an insertion within bounds
\* is kept with the duration it had.
C11_BoundsRule ==
    vpc = "done" =>
        \A a \in Elems(filtered) :
            LET ts == heap0[a].timestamp
                new_duration == FSub(video_duration, ts)
            IN  IF ts < 0 THEN a \notin Kept
                ELSE IF FAdd(ts, heap0[a].duration) > video_duration
                     THEN IF new_duration >= MinDuration
                          THEN a \in Kept /\ heap[a].duration = new_duration
                          ELSE a \notin Kept
                     ELSE a \in Kept /\ heap[a].duration = heap0[a].duration

\* An insertion cut to exactly the minimum is kept, and another one is
\* dropped.
C11_Witness ==
    /\ vpc = "done"
    /\ \E a \in Kept :
          /\ heap0[a].duration > MinDuration
          /\ heap[a].duration = MinDuration
    /\ \E a \in Elems(filtered) : a \notin Kept

\* C12: after validate_insertions_frequency and validate_insertion_bounds
\* have returned, every object of the input list has the timestamp and the
\* duration it had before the calls.
C12_InputsUntouched ==
    vpc = "done" => heap = heap0

\* The input of validate_insertions_frequency in ascending timestamp
\* order (equal timestamps in input order).
Visited ==
    SortedBy(vInput, [i \in DOMAIN heap0 |-> heap0[i].timestamp])

\* The timestamp of the last decision kept before the k-th visited one;
\* minus the interval while none has been kept.
LastKeptBefore(k) ==
    LET before == {j \in 1..(k - 1) : Visited[j] \in Elems(filtered)}
    IN  IF before = {} THEN -interval
        ELSE heap0[Visited[CHOOSE j \in before : \A i \in before : i <= j]]
                 .timestamp

KeptCount ==
    Cardinality({k \in 1..Len(bDecisions) : bDecisions[k].asset_path # NoPath})

\* C14: for every decision list, also one where some decisions lack an
\* asset path and are skipped, the k-th insertion of the built Timeline
\* (0-based) has the id ins_ followed by k padded to three digits, so the
\* ids run ins_000, ins_001, ... without gaps.
C14_IdsWithoutGaps ==
    bpc = "built" =>
        \A k \in 1..Len(built.insertions) :
            built.insertions[k].id = FormatId(k - 1)

\* C15: the complexity class is computed from the number of kept
\* insertions (decisions without an asset path do not count): low for at
\* most 5, medium for 6 to 10, high for more than 10; and
\* metadata.total_insertions is that number.
C15_ComplexityClass ==
    bpc = "built" =>
        /\ Len(built.insertions) = KeptCount
        /\ built.metadata.total_insertions = KeptCount
        /\ built.metadata.render_complexity =
               (IF KeptCount <= 5 THEN "low"
                ELSE IF KeptCount <= 10 THEN "medium"
                ELSE "high")

\* Eleven kept insertions out of more decisions: the class is high.
C15_Witness ==
    /\ bpc = "built"
    /\ KeptCount = 11
    /\ Len(bDecisions) > KeptCount
    /\ built.metadata.render_complexity = "high"

\* The indices of the decisions that have an asset path, ascending.
KeptIndices ==
    SelectSeq([k \in 1..Len(bDecisions) |-> k],
              LAMBDA k : bDecisions[k].asset_path # NoPath)

\* C25: from_decisions keeps exactly the decisions with an asset path, in
\* the order of the input list, each with the decision's timestamp and
\* duration; decisions without an asset path give no insertion.
C25_KeepsResolvedInOrder ==
    bpc = "built" =>
        /\ Len(built.insertions) = Len(KeptIndices)
        /\ \A j \in 1..Len(KeptIndices) :
              /\ built.insertions[j].asset_path =
                     bDecisions[KeptIndices[j]].asset_path
              /\ built.insertions[j].timestamp =
                     bDecisions[KeptIndices[j]].timestamp
              /\ built.insertions[j].duration =
                     bDecisions[KeptIndices[j]].duration

\* Two kept decisions of different duration around a skipped one.
C25_Witness ==
    /\ bpc = "built"
    /\ Len(built.insertions) >= 2
    /\ built.insertions[1].duration # built.insertions[2].duration
    /\ \E k \in 1..Len(bDecisions) :
          /\ bDecisions[k].asset_path = NoPath
          /\ KeptIndices[1] < k
          /\ k < KeptIndices[2]

\* ------------------------------------------------------------------------
\* Properties of build_filter_complex and build_ffmpeg_command
\* ------------------------------------------------------------------------
Graph ==
    bCommand.filter_complex

Overlays ==
    SelectSeq(Graph, LAMBDA f : f.kind = "overlay")

Chains ==
    SelectSeq(Graph, LAMBDA f : f.kind = "chain")

\* C22: in the compiled graph of a Timeline with n >= 1 insertions,
\* overlay stage 0 has the source video stream as its base, overlay stage
\* i + 1 has the output of stage i as its base, and the output of stage
\* n - 1 is [outv], which the command maps as the output video.
C22_OverlayChaining ==
    bpc = "compiled" =>
        LET n == Len(built.insertions)
        IN  /\ Len(Overlays) = n
            /\ \A i \in 1..n : Overlays[i].src[2] = Label("overlay", i - 1)
            /\ Overlays[1].src[1] = Label("in", 0)
            /\ \A i \in 1..(n - 1) : Overlays[i + 1].src[1] = Overlays[i].dst
            /\ Overlays[n].dst = Label("outv", 0)
            /\ bCommand.maps[1] = Label("outv", 0)

C22_Witness ==
    /\ bpc = "compiled"
    /\ Len(built.insertions) >= 3
    /\ Overlays[3].src[1] = Label("tmp", 1)

\* C23: the chain of every insertion applies, in this order: scale, alpha
\* fade-in, alpha fade-out, timestamp normalisation, then trim (video) or
\* loop (image), then the pixel format, then the alpha multiplication; the
\* timestamp normalisation is there for both asset kinds.
C23_ChainStageOrder ==
    bpc = "compiled" =>
        /\ Len(Chains) = Len(built.insertions)
        /\ \A i \in 1..Len(Chains) :
              Chains[i].stages =
                  IF built.insertions[i].asset_type = "video"
                  THEN <<"scale", "fade_in", "fade_out", "setpts", "trim",
                         "format", "colorchannelmixer">>
                  ELSE <<"scale", "fade_in", "fade_out", "setpts", "loop",
                         "format", "colorchannelmixer">>

Producers(l) ==
    {k \in 1..Len(Graph) : Graph[k].dst = l}

Consumers(l) ==
    {k \in 1..Len(Graph) : \E j \in 1..Len(Graph[k].src) : Graph[k].src[j] = l}

\* C30: the compiled graph of a Timeline with n >= 1 insertions has n
\* asset chains and n overlay stages; every label overlay_i (i < n) and
\* tmp_i (i < n - 1) is produced once and consumed once, the producer
\* coming before the consumer; [outv] is produced once, by the last
\* overlay stage, and consumed by no stage.
C30_GraphWellFormed ==
    bpc = "compiled" =>
        LET n == Len(built.insertions)
            inner == {Label("overlay", i) : i \in 0..(n - 1)}
                     \cup {Label("tmp", i) : i \in 0..(n - 2)}
        IN  /\ Len(Chains) = n
            /\ Len(Overlays) = n
            /\ Len(Graph) = 2 * n
            /\ \A l \in inner :
                  /\ Cardinality(Producers(l)) = 1
                  /\ Cardinality(Consumers(l)) = 1
                  /\ \A p \in Producers(l) : \A c \in Consumers(l) : p < c
            /\ Producers(Label("outv", 0)) = {Len(Graph)}
            /\ Graph[Len(Graph)].kind = "overlay"
            /\ Consumers(Label("outv", 0)) = {}

\* A graph with an image chain, a video chain and an intermediate label.
C30_Witness ==
    /\ bpc = "compiled"
    /\ Len(built.insertions) >= 2
    /\ \E i \in 1..Len(built.insertions) :
          built.insertions[i].asset_type = "image"
    /\ \E i \in 1..Len(built.insertions) :
          built.insertions[i].asset_type = "video"
    /\ Producers(Label("tmp", 0)) # {}

\* ------------------------------------------------------------------------
\* Properties of execute_ffmpeg
\* ------------------------------------------------------------------------
\* C18: when the engine exits with a non-zero code, the RenderingError
\* raised by execute_ffmpeg carries what the engine wrote to stderr during
\* the run.
C18_ErrorCarriesStderr ==
    epc = "raised" => stderr_output = StderrWritten

\* C19: whatever lines the engine writes, no percentage value is passed to
\* the progress callback twice during one run.
C19_OncePerPercent ==
    \A i \in 1..Len(reports) : \A j \in 1..Len(reports) :
        i # j => reports[i] # reports[j]

\* C20: execute_ffmpeg is never stuck: until it has returned or raised,
\* the engine or the reader can take a step, whatever the engine writes to
\* its two pipes before it exits.
C20_NeverBlocked ==
    epc \in {"readline", "wait"} => ENABLED ENext

\* C26: during one run the total duration is parsed once: after the first
\* duration announcement has been parsed, whatever its value (00:00:00.00
\* too), later announcements never change the stored total; and every
\* percentage reported lies in 0..100.
C26_DurationParsedOnce ==
    /\ [][duration # << >> => duration' = duration]_vars
    /\ [](\A i \in 1..Len(reports) : reports[i] \in 0..100)

====
